---- MODULE Spec2Model ----
(***************************************************************************)
(* Model of validate_sql_files.py: the line validator validate_sql_file    *)
(* and the batch driver main.                                              *)
(*                                                                         *)
(* A Python str is modelled as a sequence of one-character strings, so     *)
(* that split, strip, startswith, endswith and `in` are computed character *)
(* by character, as Python computes them.  File contents are built by      *)
(* concatenating chunks of a small vocabulary of the literals the rules    *)
(* look for.  The text returned by f.read() never holds "\r": the file is  *)
(* opened in text mode with universal newlines.                            *)
(*                                                                         *)
(* A diagnostic (one f-string appended to errors) is modelled as a record  *)
(* of the three holes of the f-string: the number after "Line ", the rule  *)
(* category after "Contains " and the echoed text after the last ": ".     *)
(***************************************************************************)
EXTENDS Integers, Sequences, FiniteSets

VARIABLES
    sql_files,          \* main: the files glob.glob returned, in order
    pc,                 \* control position in main / validate_sql_file
    fpos,               \* main: position of the for loop in sql_files
    total_files,        \* main: total_files
    files_with_errors,  \* main: files_with_errors
    all_errors,         \* main: all_errors
    errors,             \* validate_sql_file: errors (and main's errors)
    lines,              \* validate_sql_file: lines
    i,                  \* validate_sql_file: i of enumerate(lines, 1)
    reported,           \* main: per file, the errors printed at lines 64-71
    success,            \* main's return value
    exit_code           \* the process exit code

vars == <<sql_files, pc, fpos, total_files, files_with_errors, all_errors,
          errors, lines, i, reported, success, exit_code>>

----------------------------------------------------------------------------
(* Bounds *)

MaxChunks == 3

MaxFiles == 3

----------------------------------------------------------------------------
(* Python str operations *)

NL == "\n"

Whitespace == {" ", "\t", "\n", "\r", "\f"}

StartsWith(s, p) ==
    /\ Len(p) <= Len(s)
    /\ SubSeq(s, 1, Len(p)) = p

EndsWith(s, p) ==
    /\ Len(p) <= Len(s)
    /\ SubSeq(s, Len(s) - Len(p) + 1, Len(s)) = p

Contains(s, p) ==
    \E k \in 0..(Len(s) - Len(p)) : SubSeq(s, k + 1, k + Len(p)) = p

RECURSIVE LStrip(_)
LStrip(s) ==
    IF s = <<>> \/ Head(s) \notin Whitespace THEN s ELSE LStrip(Tail(s))

RECURSIVE RStrip(_)
RStrip(s) ==
    IF s = <<>> \/ s[Len(s)] \notin Whitespace
    THEN s
    ELSE RStrip(SubSeq(s, 1, Len(s) - 1))

StripLeadingOnly(s) == LStrip(s)

Strip(s) == RStrip(LStrip(s))

RECURSIVE Split(_)
Split(s) ==
    IF \A k \in 1..Len(s) : s[k] # NL
    THEN <<s>>
    ELSE LET p == CHOOSE k \in 1..Len(s) :
                      /\ s[k] = NL
                      /\ \A j \in 1..(k - 1) : s[j] # NL
         IN  <<SubSeq(s, 1, p - 1)>> \o Split(SubSeq(s, p + 1, Len(s)))

----------------------------------------------------------------------------
(* The literals of the rules *)

S_import == <<"i", "m", "p", "o", "r", "t", " ">>
S_from == <<"f", "r", "o", "m">>
S_require == <<"r", "e", "q", "u", "i", "r", "e", "(">>
S_importReact == <<"i", "m", "p", "o", "r", "t", " ", "R", "e", "a", "c", "t">>
S_importBraceReact ==
    <<"i", "m", "p", "o", "r", "t", " ", "{", " ", "R", "e", "a", "c", "t">>
S_colon == <<":">>
S_string == <<"s", "t", "r", "i", "n", "g">>
S_boolean == <<"b", "o", "o", "l", "e", "a", "n">>
S_number == <<"n", "u", "m", "b", "e", "r">>
S_dashes == <<"-", "-">>
S_interface == <<"i", "n", "t", "e", "r", "f", "a", "c", "e", " ">>
S_type == <<"t", "y", "p", "e", " ">>
S_const == <<"c", "o", "n", "s", "t", " ">>
S_let == <<"l", "e", "t", " ">>
S_function == <<"f", "u", "n", "c", "t", "i", "o", "n", " ">>
S_export == <<"e", "x", "p", "o", "r", "t", " ">>
S_slashes == <<"/", "/">>
S_open == <<"/", "*">>
S_close == <<"*", "/">>

Keywords == {S_interface, S_type, S_const, S_let, S_function, S_export}

----------------------------------------------------------------------------
(* The four rules, on the stripped line *)

Rule1(line) ==
    /\ StartsWith(line, S_import)
    /\ (Contains(line, S_from) \/ Contains(line, S_require))

Rule2(line) ==
    Contains(line, S_importReact) \/ Contains(line, S_importBraceReact)

Rule3NoCommentExemption(line) ==
    /\ Contains(line, S_colon)
    /\ (Contains(line, S_string) \/ Contains(line, S_boolean)
            \/ Contains(line, S_number))
    /\ \E kw \in Keywords : Contains(line, kw)

Rule3(line) ==
    /\ Contains(line, S_colon)
    /\ (Contains(line, S_string) \/ Contains(line, S_boolean)
            \/ Contains(line, S_number))
    /\ ~StartsWith(line, S_dashes)
    /\ \E kw \in Keywords : Contains(line, kw)

Rule4(line) ==
    \/ StartsWith(line, S_slashes)
    \/ StartsWith(line, S_open)
    \/ EndsWith(line, S_close)

----------------------------------------------------------------------------
(* Diagnostics *)

CatImport == "JavaScript/TypeScript import"
CatReact == "React import"
CatTypeScript == "TypeScript code"
CatComment == "JavaScript/TypeScript comment"
CatReadError == "Error reading file"

\* The message "Error reading file: ..." has no "Line N" part.
NoLine == 0

Diag(n, cat, text) == [line |-> n, category |-> cat, text |-> text]

ReadErrorDiag == Diag(NoLine, CatReadError, <<>>)

When(cond, d) == IF cond THEN <<d>> ELSE <<>>

\* A slip that would chain the rules with elif.
LineDiagnosticsShortCircuit(n, line) ==
    IF Rule1(line) THEN <<Diag(n, CatImport, line)>>
    ELSE IF Rule2(line) THEN <<Diag(n, CatReact, line)>>
    ELSE IF Rule3(line) THEN <<Diag(n, CatTypeScript, line)>>
    ELSE IF Rule4(line) THEN <<Diag(n, CatComment, line)>>
    ELSE <<>>

\* A slip that would test the comment rule before the React rule.
LineDiagnosticsReordered(n, line) ==
    When(Rule1(line), Diag(n, CatImport, line))
        \o When(Rule4(line), Diag(n, CatComment, line))
        \o When(Rule2(line), Diag(n, CatReact, line))
        \o When(Rule3(line), Diag(n, CatTypeScript, line))

\* The body of the for loop for one (already stripped) line numbered n.
LineDiagnostics(n, line) ==
    When(Rule1(line), Diag(n, CatImport, line))
        \o When(Rule2(line), Diag(n, CatReact, line))
        \o When(Rule3(line), Diag(n, CatTypeScript, line))
        \o When(Rule4(line), Diag(n, CatComment, line))

\* A slip that would call enumerate(lines) and number the lines from zero.
EnumerateStartZero == 1 - 1

\* The start argument of enumerate(lines, 1).
EnumerateStart == 1

----------------------------------------------------------------------------
(* The files of a run *)

Vocab ==
    { S_import, <<"R", "e", "a", "c", "t">>, S_from, <<"{", " ">>, S_require,
      S_const, <<":", " ">> \o S_number, S_string, S_colon, S_dashes,
      S_slashes, S_open, S_close, <<" ">>, <<"\t">>, <<NL>> }

RECURSIVE Concat(_)
Concat(ss) == IF ss = <<>> THEN <<>> ELSE Head(ss) \o Concat(Tail(ss))

Texts(n) == { Concat(cs) : cs \in UNION { [1..m -> Vocab] : m \in 0..n } }

Readable(text) == [readable |-> TRUE, content |-> text]

\* A file whose open or read raises (missing, no permission, bad UTF-8).
Unreadable == [readable |-> FALSE, content |-> <<>>]

Files(n) == { Readable(t) : t \in Texts(n) } \cup {Unreadable}

\* Representative files for runs over several files.
F_clean == Readable(S_dashes \o S_const \o <<":", " ">> \o S_number)
F_comment == Readable(<<" ">> \o S_slashes)
F_react ==
    Readable(S_importReact \o <<" ">> \o S_from \o <<NL, NL>> \o S_close)
F_empty == Readable(<<>>)

BatchFiles == {Unreadable, F_clean, F_comment, F_react, F_empty}

Batches ==
    { <<f>> : f \in Files(MaxChunks) }
        \cup UNION { [1..m -> BatchFiles] : m \in 0..MaxFiles }

----------------------------------------------------------------------------
(* Initial state: the process has started, main has not run yet *)

Init ==
    /\ sql_files \in Batches
    /\ pc = "main"
    /\ fpos = 1
    /\ total_files = 0
    /\ files_with_errors = 0
    /\ all_errors = <<>>
    /\ errors = <<>>
    /\ lines = <<>>
    /\ i = 0
    /\ reported = <<>>
    /\ success = FALSE
    /\ exit_code = -1

----------------------------------------------------------------------------
(* main *)

\* Lines 48-56: glob the files and set the counters.
MainStart ==
    /\ pc = "main"
    /\ total_files' = Len(sql_files)
    /\ files_with_errors' = 0
    /\ all_errors' = <<>>
    /\ fpos' = 1
    /\ pc' = "loop"
    /\ UNCHANGED <<sql_files, errors, lines, i, reported, success, exit_code>>

\* A slip that would keep errors across calls (a module-level list).
CallValidateNoReset ==
    /\ pc = "loop"
    /\ fpos <= Len(sql_files)
    /\ pc' = "open"
    /\ UNCHANGED <<sql_files, fpos, total_files, files_with_errors,
                   all_errors, errors, lines, i, reported, success, exit_code>>

\* Lines 58-62 and 12: the loop takes the next file and calls
\* validate_sql_file, which starts with errors = [].
CallValidate ==
    /\ pc = "loop"
    /\ fpos <= Len(sql_files)
    /\ errors' = <<>>
    /\ pc' = "open"
    /\ UNCHANGED <<sql_files, fpos, total_files, files_with_errors,
                   all_errors, lines, i, reported, success, exit_code>>

\* Lines 15-20: the file is read and split; the for loop starts.
OpenOk ==
    /\ pc = "open"
    /\ sql_files[fpos].readable
    /\ lines' = Split(sql_files[fpos].content)
    /\ i' = EnumerateStart
    /\ pc' = "scan"
    /\ UNCHANGED <<sql_files, fpos, total_files, files_with_errors,
                   all_errors, errors, reported, success, exit_code>>

\* A slip that would swallow the exception (except: pass).
OpenFailSwallowed ==
    /\ pc = "open"
    /\ ~sql_files[fpos].readable
    /\ pc' = "returned"
    /\ UNCHANGED <<sql_files, fpos, total_files, files_with_errors,
                   all_errors, errors, lines, i, reported, success, exit_code>>

\* Lines 41-44: open or read raised; the exception becomes one diagnostic.
OpenFail ==
    /\ pc = "open"
    /\ ~sql_files[fpos].readable
    /\ errors' = Append(errors, ReadErrorDiag)
    /\ pc' = "returned"
    /\ UNCHANGED <<sql_files, fpos, total_files, files_with_errors,
                   all_errors, lines, i, reported, success, exit_code>>

\* A slip that would number a line after advancing the counter.
CheckLineOffByOne ==
    /\ pc = "scan"
    /\ i - EnumerateStart + 1 <= Len(lines)
    /\ LET line == Strip(lines[i - EnumerateStart + 1])
       IN  errors' = errors \o LineDiagnostics(i + 1, line)
    /\ i' = i + 1
    /\ UNCHANGED <<sql_files, pc, fpos, total_files, files_with_errors,
                   all_errors, lines, reported, success, exit_code>>

\* Lines 20-39: one iteration of the for loop over the lines.
CheckLine ==
    /\ pc = "scan"
    /\ i - EnumerateStart + 1 <= Len(lines)
    /\ LET line == Strip(lines[i - EnumerateStart + 1])
       IN  errors' = errors \o LineDiagnostics(i, line)
    /\ i' = i + 1
    /\ UNCHANGED <<sql_files, pc, fpos, total_files, files_with_errors,
                   all_errors, lines, reported, success, exit_code>>

\* Line 44: the lines are exhausted; validate_sql_file returns errors.
ScanDone ==
    /\ pc = "scan"
    /\ i - EnumerateStart + 1 > Len(lines)
    /\ pc' = "returned"
    /\ UNCHANGED <<sql_files, fpos, total_files, files_with_errors,
                   all_errors, errors, lines, i, reported, success, exit_code>>

\* A slip that would count errors instead of files.
CollectCountsErrors ==
    /\ pc = "returned"
    /\ files_with_errors' = files_with_errors + Len(errors)
    /\ all_errors' = all_errors \o errors
    /\ reported' = Append(reported, errors)
    /\ fpos' = fpos + 1
    /\ pc' = "loop"
    /\ UNCHANGED <<sql_files, total_files, errors, lines, i, success,
                   exit_code>>

\* Lines 62-71: main takes the returned errors, prints and accumulates them.
Collect ==
    /\ pc = "returned"
    /\ files_with_errors' =
           IF errors # <<>> THEN files_with_errors + 1 ELSE files_with_errors
    /\ all_errors' = IF errors # <<>> THEN all_errors \o errors ELSE all_errors
    /\ reported' = Append(reported, errors)
    /\ fpos' = fpos + 1
    /\ pc' = "loop"
    /\ UNCHANGED <<sql_files, total_files, errors, lines, i, success,
                   exit_code>>

\* A slip that would decide the result on the last file's errors only.
MainReturnLastFileOnly ==
    /\ pc = "loop"
    /\ fpos > Len(sql_files)
    /\ success' = (errors = <<>>)
    /\ pc' = "finished"
    /\ UNCHANGED <<sql_files, fpos, total_files, files_with_errors,
                   all_errors, errors, lines, i, reported, exit_code>>

\* Lines 73-91: the loop is over; main prints the summary and returns.
MainReturn ==
    /\ pc = "loop"
    /\ fpos > Len(sql_files)
    /\ success' = (all_errors = <<>>)
    /\ pc' = "finished"
    /\ UNCHANGED <<sql_files, fpos, total_files, files_with_errors,
                   all_errors, errors, lines, i, reported, exit_code>>

\* Lines 94-95: exit(0 if success else 1).
Exit ==
    /\ pc = "finished"
    /\ exit_code' = IF success THEN 0 ELSE 1
    /\ pc' = "exited"
    /\ UNCHANGED <<sql_files, fpos, total_files, files_with_errors,
                   all_errors, errors, lines, i, reported, success>>

Next ==
    \/ MainStart
    \/ CallValidate
    \/ OpenOk
    \/ OpenFail
    \/ CheckLine
    \/ ScanDone
    \/ Collect
    \/ MainReturn
    \/ Exit

Spec == Init /\ [][Next]_vars

----------------------------------------------------------------------------
(* Vocabulary of the properties, stated on the file content itself *)

\* validate_sql_file has just returned the errors of a file it could read.
ReturnedReadable == pc = "returned" /\ sql_files[fpos].readable

Content == sql_files[fpos].content

NewlinesBefore(s, k) == Cardinality({ j \in 1..(k - 1) : s[j] = NL })

NumLines(s) == NewlinesBefore(s, Len(s) + 1) + 1

\* The n-th line of s: the characters that have n - 1 newlines before them.
LineAt(s, n) ==
    LET idx == { k \in 1..Len(s) : s[k] # NL /\ NewlinesBefore(s, k) = n - 1 }
    IN  IF idx = {}
        THEN <<>>
        ELSE SubSeq(s, CHOOSE k \in idx : \A j \in idx : k <= j,
                       CHOOSE k \in idx : \A j \in idx : k >= j)

AllSpace(s) == \A k \in 1..Len(s) : s[k] \in Whitespace

\* t is orig without its leading and trailing whitespace.
IsTrimOf(t, orig) ==
    /\ t = <<>> \/ (t[1] \notin Whitespace /\ t[Len(t)] \notin Whitespace)
    /\ \E a \in 0..Len(orig) :
           /\ a + Len(t) <= Len(orig)
           /\ AllSpace(SubSeq(orig, 1, a))
           /\ SubSeq(orig, a + 1, a + Len(t)) = t
           /\ AllSpace(SubSeq(orig, a + Len(t) + 1, Len(orig)))

RuleNo(cat) ==
    CASE cat = CatImport -> 1
      [] cat = CatReact -> 2
      [] cat = CatTypeScript -> 3
      [] cat = CatComment -> 4
      [] OTHER -> 0

RuleHolds(cat, line) ==
    CASE cat = CatImport -> Rule1(line)
      [] cat = CatReact -> Rule2(line)
      [] cat = CatTypeScript -> Rule3(line)
      [] cat = CatComment -> Rule4(line)
      [] OTHER -> FALSE

RuleCats == {CatImport, CatReact, CatTypeScript, CatComment}

\* How many diagnostics of es carry line n (and category cat).
CountLine(es, n) == Cardinality({ a \in 1..Len(es) : es[a].line = n })

CountLineCat(es, n, cat) ==
    Cardinality({ a \in 1..Len(es) :
                    es[a].line = n /\ es[a].category = cat })

RECURSIVE SumLen(_)
SumLen(rs) == IF rs = <<>> THEN 0 ELSE Len(Head(rs)) + SumLen(Tail(rs))

Finished == pc \in {"finished", "exited"}

----------------------------------------------------------------------------
\* C1: the diagnostics returned for a file are ordered by line number, and
\* within one line by rule in the order import, React import, TypeScript
\* code, comment.
C1_DiagnosticOrder ==
    ReturnedReadable =>
        \A a, b \in 1..Len(errors) :
            a < b =>
                \/ errors[a].line < errors[b].line
                \/ /\ errors[a].line = errors[b].line
                   /\ RuleNo(errors[a].category) < RuleNo(errors[b].category)

\* A file with two diagnostics on one line and one on a later line.
C1_Witness ==
    /\ ReturnedReadable
    /\ \E a, b, c \in 1..Len(errors) :
           /\ a < b /\ b < c
           /\ errors[a].line = errors[b].line
           /\ errors[b].line < errors[c].line

\* C2: for every line of a file that was read, each rule whose predicate
\* holds on the trimmed line contributes exactly one diagnostic with that
\* line's number and every other rule none, so the line's diagnostics number
\* as many as the rules that hold; no diagnostic carries another number.
C2_RulesIndependent ==
    ReturnedReadable =>
        /\ \A n \in 1..Len(lines) :
               /\ \A cat \in RuleCats :
                      CountLineCat(errors, n, cat) =
                          IF RuleHolds(cat, Strip(lines[n])) THEN 1 ELSE 0
               /\ CountLine(errors, n) =
                      Cardinality({ cat \in RuleCats :
                                      RuleHolds(cat, Strip(lines[n])) })
        /\ \A a \in 1..Len(errors) : errors[a].line \in 1..Len(lines)
        /\ (\A n \in 1..Len(lines), cat \in RuleCats :
                ~RuleHolds(cat, Strip(lines[n]))) => errors = <<>>

\* A line on which rule 1 and rule 2 both hold, reported twice.
C2_Witness ==
    /\ ReturnedReadable
    /\ \E n \in 1..Len(lines) :
           /\ Rule1(Strip(lines[n]))
           /\ Rule2(Strip(lines[n]))
           /\ CountLine(errors, n) = 2

\* C3: no 'TypeScript code' diagnostic is reported for a line that, once
\* trimmed, starts with "--".
C3_SqlCommentExempt ==
    ReturnedReadable =>
        \A n \in 1..NumLines(Content) :
            StartsWith(Strip(LineAt(Content, n)), S_dashes) =>
                CountLineCat(errors, n, CatTypeScript) = 0

\* A "--" line with a colon, a type word and a keyword, and nothing reported.
C3_Witness ==
    /\ ReturnedReadable
    /\ \E n \in 1..NumLines(Content) :
           LET l == Strip(LineAt(Content, n))
           IN  /\ StartsWith(l, S_dashes)
               /\ Contains(l, S_colon)
               /\ Contains(l, S_number)
               /\ Contains(l, S_const)
    /\ errors = <<>>

\* C4: a diagnostic numbered n comes from the n-th line of the content split
\* on newlines (its rule holds on that line), and every line on which a rule
\* holds is reported under its own 1-based position.
C4_LineNumbers ==
    ReturnedReadable =>
        /\ \A a \in 1..Len(errors) :
               /\ errors[a].line \in 1..NumLines(Content)
               /\ RuleHolds(errors[a].category,
                            Strip(LineAt(Content, errors[a].line)))
        /\ \A n \in 1..NumLines(Content), cat \in RuleCats :
               RuleHolds(cat, Strip(LineAt(Content, n))) =>
                   CountLineCat(errors, n, cat) >= 1

\* A rule 1 line reported as line 2, after a first line that matches nothing.
C4_Witness ==
    /\ ReturnedReadable
    /\ NumLines(Content) >= 2
    /\ Rule1(Strip(LineAt(Content, 2)))
    /\ CountLine(errors, 1) = 0
    /\ \E a \in 1..Len(errors) :
           errors[a].line = 2 /\ errors[a].category = CatImport

\* C5 as stated: the text echoed in a diagnostic is the untrimmed line.
C5_EchoesOriginalLine ==
    ReturnedReadable =>
        \A a \in 1..Len(errors) :
            errors[a].text = LineAt(Content, errors[a].line)

\* C5, amended: the text echoed in a diagnostic is the line without its
\* leading and trailing whitespace, the same text the rules were tested on.
C5_EchoesTrimmedLine ==
    ReturnedReadable =>
        \A a \in 1..Len(errors) :
            IsTrimOf(errors[a].text, LineAt(Content, errors[a].line))

\* A reported line with surrounding whitespace, echoed without it.
C5_Witness ==
    /\ ReturnedReadable
    /\ \E a \in 1..Len(errors) :
           LET orig == LineAt(Content, errors[a].line)
           IN  /\ orig # <<>>
               /\ orig[1] \in Whitespace
               /\ orig[Len(orig)] \in Whitespace
               /\ errors[a].text # orig

\* C6: a file that cannot be read yields exactly the one read-failure
\* diagnostic, the run never stops before the exit, and at the summary every
\* enumerated file has been validated.
C6_ReadFailureIsolated ==
    /\ \A k \in 1..Len(reported) :
           ~sql_files[k].readable => reported[k] = <<ReadErrorDiag>>
    /\ (pc = "returned" /\ ~sql_files[fpos].readable) =>
           errors = <<ReadErrorDiag>>
    /\ Finished => Len(reported) = Len(sql_files)
    /\ pc # "exited" => ENABLED Next

\* The run ended after an unreadable file was followed by a file with
\* rule diagnostics.
C6_Witness ==
    /\ pc = "exited"
    /\ \E k \in 1..(Len(sql_files) - 1) :
           /\ ~sql_files[k].readable
           /\ reported[k] = <<ReadErrorDiag>>
           /\ reported[k + 1] # <<>>
           /\ \A a \in 1..Len(reported[k + 1]) :
                  reported[k + 1][a].category \in RuleCats

\* C7: the process exits 0 (main returned True) exactly when no diagnostic
\* was produced for any file, and exits 1 otherwise.
C7_ExitStatus ==
    pc = "exited" =>
        /\ Len(reported) = Len(sql_files)
        /\ exit_code \in {0, 1}
        /\ success <=> (exit_code = 0)
        /\ (exit_code = 0) <=> (SumLen(reported) = 0)

\* A run that fails on a read-failure diagnostic alone, its last file clean.
C7_Witness ==
    /\ pc = "exited"
    /\ exit_code = 1
    /\ Len(sql_files) >= 2
    /\ reported[Len(reported)] = <<>>
    /\ \A k \in 1..Len(reported) :
           reported[k] # <<>> => reported[k] = <<ReadErrorDiag>>

\* C8: within a run, two files with the same content get the same
\* diagnostics, whatever was validated before them.
C8_FunctionOfContent ==
    \A j, k \in 1..Len(reported) :
        (sql_files[j].readable /\ sql_files[j] = sql_files[k]) =>
            reported[j] = reported[k]

\* The same reported content validated first and again after a file that
\* failed to read.
C8_Witness ==
    /\ pc = "exited"
    /\ Len(sql_files) = 3
    /\ sql_files[1].readable
    /\ sql_files[1] = sql_files[3]
    /\ ~sql_files[2].readable
    /\ reported[1] # <<>>
    /\ reported[3] = reported[1]

\* C9 as stated: every diagnostic, the read-failure one included, carries a
\* line position between 1 and the number of lines of its file.
C9_EveryDiagnosticHasLine ==
    \A k \in 1..Len(reported) :
        \A a \in 1..Len(reported[k]) :
            /\ 1 <= reported[k][a].line
            /\ reported[k][a].line <= NumLines(sql_files[k].content)

\* C9, amended: every diagnostic of a file that was read carries a line
\* position between 1 and the number of lines of the file; the diagnostic of
\* a read failure carries no line position.
C9_RuleDiagnosticsHaveLine ==
    \A k \in 1..Len(reported) :
        \A a \in 1..Len(reported[k]) :
            IF sql_files[k].readable
            THEN /\ 1 <= reported[k][a].line
                 /\ reported[k][a].line <= NumLines(sql_files[k].content)
                 /\ reported[k][a].category \in RuleCats
            ELSE /\ reported[k][a].line = NoLine
                 /\ reported[k][a].category = CatReadError

\* A run that reported a read failure and a diagnostic on a file's last line.
C9_Witness ==
    \E j, k \in 1..Len(reported) :
        /\ ~sql_files[j].readable
        /\ reported[j] # <<>>
        /\ sql_files[k].readable
        /\ \E a \in 1..Len(reported[k]) :
               reported[k][a].line = NumLines(sql_files[k].content)

\* C10: at the summary, 'files checked' is the number of enumerated files,
\* 'files with errors' the number of files with a non-empty result and
\* 'total errors' the sum of the results' lengths.
C10_SummaryCounts ==
    Finished =>
        /\ Len(reported) = Len(sql_files)
        /\ total_files = Len(sql_files)
        /\ files_with_errors =
               Cardinality({ k \in 1..Len(reported) : reported[k] # <<>> })
        /\ Len(all_errors) = SumLen(reported)
        /\ files_with_errors <= total_files
        /\ files_with_errors <= Len(all_errors)
        /\ (Len(all_errors) = 0) <=> (files_with_errors = 0)

\* A summary with a clean file and fewer files with errors than errors.
C10_Witness ==
    /\ pc = "exited"
    /\ 0 < files_with_errors
    /\ files_with_errors < total_files
    /\ files_with_errors < Len(all_errors)

====
